---- MODULE Spec2Model ----
(***************************************************************************)
(* Model of src/autolist_increment.py: the AutoListIncremental engine.     *)
(*                                                                         *)
(* One operating-system process at a time constructs an                    *)
(* AutoListIncremental object (loading the history file), calls run() or   *)
(* initialize_baseline() on it, and exits.  The remote service holds the   *)
(* liked-songs listing (newest first), the destination playlists and the   *)
(* artist catalogue.  Every remote request is one step and may fail.       *)
(***************************************************************************)
EXTENDS Integers, Sequences, FiniteSets, TLC

(***************************************************************************)
(* Bounds of the model.                                                    *)
(***************************************************************************)
\* page size of GET /me/tracks (limit = 50 in the source, scaled down)
PageLimit == 1
\* ids per GET /artists request (batch_size = 50 in the source, scaled down)
BatchSize == 1
\* entries per page of GET /playlists/{id}/tracks (server side, scaled down)
PlaylistPage == 1
\* number of failures in one behaviour: failed remote requests, failed writes
\* of the history file, kills of the process
MaxFaults == 1
\* number of process invocations (run / initialize_baseline) in one behaviour
MaxCalls == 2

(***************************************************************************)
(* Optional values: Python's None and a present value.                     *)
(***************************************************************************)
None == <<>>
Some(x) == <<x>>

(***************************************************************************)
(* Strings that the matcher inspects are sequences of characters.          *)
(***************************************************************************)
Jazz == <<"j", "a", "z", "z">>
Metal == <<"m", "e", "t", "a", "l">>
JazzUpper == <<"J", "a", "z", "z">>
Rock == <<"r", "o", "c", "k">>
RockUpper == <<"R", "o", "c", "k">>
IndieRock == <<"i", "n", "d", "i", "e", " ", "r", "o", "c", "k">>
Pop == <<"p", "o", "p">>
DreamPop == <<"d", "r", "e", "a", "m", " ", "p", "o", "p">>

(***************************************************************************)
(* The remote catalogue: tracks, their artists, the artists' genres.       *)
(* An artist the service does not know is answered with null.              *)
(***************************************************************************)
Tracks == {"t1", "t2"}
Artists == {"a1", "a2", "a3"}
Playlists == {"PX"}

TrackArtists(t) ==
    CASE t = "t1" -> <<"a1">>
      [] OTHER    -> <<"a3", "a2">>

\* the "artists" array of a successful GET /artists answer, per id:
\* a sequence holding the genres, or None for a null artist object
RemoteArtist(a) ==
    CASE a = "a1" -> Some(<<JazzUpper>>)
      [] a = "a2" -> Some(<<Metal>>)
      [] OTHER    -> None

(***************************************************************************)
(* Ledger entries and the processing history (processing_history.json).    *)
(***************************************************************************)
NoEntry == [action |-> "absent", playlist_id |-> None]

EmptyHistory ==
    [processed_tracks |-> [t \in Tracks |-> NoEntry],
     last_run         |-> None,
     total_runs       |-> 0,
     start_date       |-> None,
     start_index      |-> None]

VARIABLES
    \* ---- remote service
    liked,          \* the liked-songs listing, newest first: seq of [id, liked_at]
    playlist,       \* playlist id -> seq of track ids
    \* ---- files
    rules,          \* the "rules" of generated_config.json, in file order
    settings,       \* the "settings" of generated_config.json as the matcher reads them
    disk,           \* processing_history.json: [kind, data]
    \* ---- the AutoListIncremental object of the running process
    pc,             \* where the process is
    op,             \* the call in progress: [name, mode, start_date, start_index]
    history,        \* self.processing_history
    artist_genre_cache,   \* artist id -> None (not cached) or Some(genres)
    playlist_cache,       \* playlist id -> None (not cached) or Some(set of ids)
    stats,          \* self.stats
    all_tracks,     \* get_all_liked_songs: tracks collected so far
    offset,         \* get_all_liked_songs: offset of the next page
    new_tracks,     \* run: the tracks filter_new_tracks returned
    idx,            \* run: position in new_tracks of the track in process (1-based)
    result,         \* process_track: the result under construction
    \* ---- bookkeeping of the environment and observations
    faults,         \* failures so far
    calls,          \* process invocations so far
    obs             \* observations of the run in progress and of the last finished run

vars == <<liked, playlist, rules, settings, disk, pc, op, history, artist_genre_cache,
          playlist_cache, stats, all_tracks, offset, new_tracks, idx, result,
          faults, calls, obs>>

(***************************************************************************)
(* Helpers on sequences.                                                   *)
(***************************************************************************)
Range(s) == {s[i] : i \in 1..Len(s)}

Min(a, b) == IF a < b THEN a ELSE b

\* Python's s[a:b] on a sequence (0-based, end exclusive, clipped)
Slice(s, a, b) == SubSeq(s, a + 1, Min(b, Len(s)))

\* list(dict.fromkeys(s)): first occurrences, order kept
RECURSIVE Unique(_)
Unique(s) ==
    IF s = <<>> THEN <<>>
    ELSE LET front == Unique(SubSeq(s, 1, Len(s) - 1))
             last  == s[Len(s)]
         IN IF last \in Range(front) THEN front ELSE Append(front, last)

RECURSIVE Concat(_)
Concat(ss) == IF ss = <<>> THEN <<>> ELSE Head(ss) \o Concat(Tail(ss))

(***************************************************************************)
(* json.dump / json.load of the history: the document holds a member of    *)
(* "processed_tracks" for each recorded id only, null for None, and the    *)
(* strings and numbers as they are.                                        *)
(***************************************************************************)
JsonNull == <<"null">>

\* (a variant that writes every falsy value, 0 included, as null)
JsonValue_FalsyAsNull(opt) ==
    IF opt = None \/ opt[1] = 0 THEN JsonNull ELSE <<"value", opt[1]>>

JsonValue(opt) == IF opt = None THEN JsonNull ELSE <<"value", opt[1]>>

FromJson(jv) == IF jv = JsonNull THEN None ELSE Some(jv[2])

\* json.dump(self.processing_history, f)
JsonDump(h) ==
    [processed_tracks |->
         {<<t, [action      |-> h.processed_tracks[t].action,
                playlist_id |-> JsonValue(h.processed_tracks[t].playlist_id)]>> :
             t \in {x \in Tracks : h.processed_tracks[x] # NoEntry}},
     last_run    |-> JsonValue(h.last_run),
     total_runs  |-> h.total_runs,
     start_date  |-> JsonValue(h.start_date),
     start_index |-> JsonValue(h.start_index)]

\* json.load(f): the dictionary of a document
JsonLoad(doc) ==
    [processed_tracks |->
         [t \in Tracks |->
             IF \E m \in doc.processed_tracks : m[1] = t
             THEN LET m == CHOOSE m \in doc.processed_tracks : m[1] = t
                  IN [action |-> m[2].action, playlist_id |-> FromJson(m[2].playlist_id)]
             ELSE NoEntry],
     last_run    |-> FromJson(doc.last_run),
     total_runs  |-> doc.total_runs,
     start_date  |-> FromJson(doc.start_date),
     start_index |-> FromJson(doc.start_index)]

\* the content of a file that is missing or cannot be parsed
NoDocument == <<>>

(***************************************************************************)
(* _load_processing_history / _save_processing_history                     *)
(***************************************************************************)
\* (a variant whose fallback for an unreadable file is not the fresh history:
\* it carries a baseline marker)
LoadProcessingHistory_MarkedFallback(file) ==
    IF file.kind = "ok" THEN JsonLoad(file.data)
    ELSE [EmptyHistory EXCEPT !.start_index = Some(1)]

\* A missing file gives the fresh history; a file that is not valid JSON
\* gives a history without the start_date / start_index keys, which every
\* reader takes with .get() and so reads as None.
LoadProcessingHistory(file) ==
    IF file.kind = "ok" THEN JsonLoad(file.data) ELSE EmptyHistory

\* the dictionary as it stands when the file is opened for writing
Stamped(h, today) ==
    [h EXCEPT !.last_run = Some(today), !.total_runs = @ + 1]

\* the file after the write: written in full, or (the write raised) left as
\* it was when open() failed, or truncated when the dump failed part-way
SavedFile(h, file, outcome) ==
    CASE outcome = "written"   -> [kind |-> "ok", data |-> JsonDump(h)]
      [] outcome = "unopened"  -> file
      [] OTHER                 -> [kind |-> "corrupt", data |-> NoDocument]

SaveOutcomes == {"written", "unopened", "truncated"}

(***************************************************************************)
(* The baseline guard of initialize_baseline and run: Python truthiness of *)
(* start_date (a non-empty string once set) and of start_index (an int).   *)
(***************************************************************************)
Truthy(opt) == opt # None /\ opt[1] # 0

BaselineInitialized(h) == h.start_date # None \/ Truthy(h.start_index)

(***************************************************************************)
(* _mark_as_baseline_processed                                             *)
(***************************************************************************)
BaselineEntry == [action |-> "baseline", playlist_id |-> None]

\* (every track of all_tracks has an id: get_all_liked_songs keeps no other)
MarkAsBaselineProcessed(pt, track) == [pt EXCEPT ![track.id] = BaselineEntry]

RECURSIVE MarkAll(_, _)
MarkAll(pt, tracks) ==
    IF tracks = <<>> THEN pt
    ELSE MarkAll(MarkAsBaselineProcessed(pt, Head(tracks)), Tail(tracks))

\* liked_at[:10]: the calendar date of an acquisition timestamp <<day, n>>
DateOf(liked_at) == liked_at[1]

\* (a variant whose date test also takes the tracks liked on the start date)
ApplyBaseline_OnOrBefore(h, mode, start_date, start_index, tracks, today) ==
    CASE mode = "date" ->
            LET d == IF start_date = None THEN today ELSE start_date[1]
                Before(tr) == DateOf(tr.liked_at) <= d
            IN [h EXCEPT !.start_date = Some(d),
                         !.processed_tracks = MarkAll(@, SelectSeq(tracks, Before))]
      [] mode = "index" ->
            LET n == IF start_index = None THEN Len(tracks) ELSE start_index[1]
                baseline_count == Min(n, Len(tracks))
            IN [h EXCEPT !.start_index = Some(n),
                         !.processed_tracks =
                             MarkAll(@, SubSeq(tracks, 1, baseline_count))]
      [] OTHER -> h

\* the body of initialize_baseline after the enumeration: the history with
\* the marker set and the baseline tracks marked (not yet saved)
ApplyBaseline(h, mode, start_date, start_index, tracks, today) ==
    CASE mode = "date" ->
            LET d == IF start_date = None THEN today ELSE start_date[1]
                Before(tr) == DateOf(tr.liked_at) < d
            IN [h EXCEPT !.start_date = Some(d),
                         !.processed_tracks = MarkAll(@, SelectSeq(tracks, Before))]
      [] mode = "index" ->
            LET n == IF start_index = None THEN Len(tracks) ELSE start_index[1]
                baseline_count == Min(n, Len(tracks))
            IN [h EXCEPT !.start_index = Some(n),
                         !.processed_tracks =
                             MarkAll(@, SubSeq(tracks, 1, baseline_count))]
      [] OTHER -> h

(***************************************************************************)
(* filter_new_tracks                                                       *)
(***************************************************************************)
\* (a variant that takes a track recorded as 'error' for new again)
FilterNewTracks_RetryErrors(h, tracks) ==
    LET processed_track_ids ==
            {t \in Tracks : h.processed_tracks[t].action \notin {"absent", "error"}}
        IsNew(tr) == tr.id \notin processed_track_ids
    IN SelectSeq(tracks, IsNew)

FilterNewTracks(h, tracks) ==
    LET processed_track_ids == {t \in Tracks : h.processed_tracks[t] # NoEntry}
        IsNew(tr) == tr.id \notin processed_track_ids
    IN SelectSeq(tracks, IsNew)

(***************************************************************************)
(* get_artist_genres_batch / get_track_genres                              *)
(***************************************************************************)
\* one successful GET /artists for the ids of batch: every non-null artist
\* object of the answer is stored
RECURSIVE StoreAnswer(_, _)
StoreAnswer(cache, batch) ==
    IF batch = <<>> THEN cache
    ELSE LET aid == Head(batch)
             c   == IF RemoteArtist(aid) # None
                    THEN [cache EXCEPT ![aid] = RemoteArtist(aid)]
                    ELSE cache
         IN StoreAnswer(c, Tail(batch))

\* (a variant whose except branch stores nothing)
StoreEmpty_Nothing(cache, batch) == cache

\* the except branch: every id of the batch is cached with no genres
RECURSIVE StoreEmpty(_, _)
StoreEmpty(cache, batch) ==
    IF batch = <<>> THEN cache
    ELSE StoreEmpty([cache EXCEPT ![Head(batch)] = Some(<<>>)], Tail(batch))

\* the loop over the batches of uncached_ids from position i (0-based);
\* failing is the set of batch numbers (1-based) whose request fails
RECURSIVE BatchLoop(_, _, _, _)
BatchLoop(cache, uncached_ids, i, failing) ==
    IF i >= Len(uncached_ids) THEN cache
    ELSE LET batch == Slice(uncached_ids, i, i + BatchSize)
             c == IF ((i \div BatchSize) + 1) \in failing
                  THEN StoreEmpty(cache, batch)
                  ELSE StoreAnswer(cache, batch)
         IN BatchLoop(c, uncached_ids, i + BatchSize, failing)

\* (a variant that requests every id, cached or not)
Uncached_All(cache, artist_ids) == artist_ids

Uncached(cache, artist_ids) ==
    LET NotCached(aid) == cache[aid] = None IN SelectSeq(artist_ids, NotCached)

\* number of requests get_artist_genres_batch issues
BatchCount(cache, artist_ids) ==
    (Len(Uncached(cache, artist_ids)) + BatchSize - 1) \div BatchSize

\* the cache after get_artist_genres_batch(artist_ids)
GenreCacheAfter(cache, artist_ids, failing) ==
    BatchLoop(cache, Uncached(cache, artist_ids), 0, failing)

\* self.artist_genre_cache.get(aid, [])
CachedGenres(cache, aid) == IF cache[aid] = None THEN <<>> ELSE cache[aid][1]

\* line 269: what get_artist_genres_batch returns, given the cache after
\* its loop
ArtistGenresMap(cache, artist_ids) ==
    [aid \in Range(artist_ids) |-> CachedGenres(cache, aid)]

\* what get_track_genres returns, given the cache after the batch call
TrackGenres(cache, artist_ids) ==
    Unique(Concat([k \in 1..Len(artist_ids) |-> CachedGenres(cache, artist_ids[k])]))

(***************************************************************************)
(* match_genres_to_playlist                                                *)
(***************************************************************************)
LowerChar(c) ==
    CASE c = "J" -> "j"
      [] c = "M" -> "m"
      [] c = "P" -> "p"
      [] c = "R" -> "r"
      [] OTHER   -> c

\* str.lower()
Lower(s) == [k \in 1..Len(s) |-> LowerChar(s[k])]

\* Python's  a in b  on strings
IsSubstring(a, b) ==
    \E k \in 0..(Len(b) - Len(a)) : SubSeq(b, k + 1, k + Len(a)) = a

\* (a variant that tests one direction only: the rule inside the genre)
MatchType_RuleInGenreOnly(genre, rule_genre, case_sensitive, partial_match) ==
    LET genre_check == IF case_sensitive THEN genre ELSE Lower(genre)
        rule_check  == IF case_sensitive THEN rule_genre ELSE Lower(rule_genre)
    IN IF partial_match
       THEN IF IsSubstring(rule_check, genre_check) THEN "partial_rule_in_genre" ELSE ""
       ELSE IF rule_check = genre_check THEN "exact" ELSE ""

\* (a variant whose exact comparison takes the strings as given)
MatchType_ExactAsGiven(genre, rule_genre, case_sensitive, partial_match) ==
    LET genre_check == IF case_sensitive THEN genre ELSE Lower(genre)
        rule_check  == IF case_sensitive THEN rule_genre ELSE Lower(rule_genre)
    IN IF partial_match
       THEN IF IsSubstring(rule_check, genre_check) THEN "partial_rule_in_genre"
            ELSE IF IsSubstring(genre_check, rule_check) THEN "partial_genre_in_rule"
            ELSE ""
       ELSE IF rule_genre = genre THEN "exact" ELSE ""

\* the match_type of one (genre, rule) pair, or "" when it does not match
MatchType(genre, rule_genre, case_sensitive, partial_match) ==
    LET genre_check == IF case_sensitive THEN genre ELSE Lower(genre)
        rule_check  == IF case_sensitive THEN rule_genre ELSE Lower(rule_genre)
    IN IF partial_match
       THEN IF IsSubstring(rule_check, genre_check) THEN "partial_rule_in_genre"
            ELSE IF IsSubstring(genre_check, rule_check) THEN "partial_genre_in_rule"
            ELSE ""
       ELSE IF rule_check = genre_check THEN "exact" ELSE ""

\* (a variant of the double loop with the rules outer and the genres inner)
RECURSIVE MatchFrom_RulesOuter(_, _, _, _, _, _)
MatchFrom_RulesOuter(genres, rs, g, r, case_sensitive, partial_match) ==
    IF r > Len(rs) THEN None
    ELSE IF g > Len(genres)
         THEN MatchFrom_RulesOuter(genres, rs, 1, r + 1, case_sensitive, partial_match)
    ELSE LET mt == MatchType(genres[g], rs[r].genre, case_sensitive, partial_match)
         IN IF mt # ""
            THEN Some([playlist_id   |-> rs[r].playlist_id,
                       matched_genre |-> genres[g],
                       rule_genre    |-> rs[r].genre,
                       match_type    |-> mt])
            ELSE MatchFrom_RulesOuter(genres, rs, g + 1, r, case_sensitive, partial_match)

\* the double loop from genre g, rule r on: genres outer, rules inner
RECURSIVE MatchFrom(_, _, _, _, _, _)
MatchFrom(genres, rs, g, r, case_sensitive, partial_match) ==
    IF g > Len(genres) THEN None
    ELSE IF r > Len(rs) THEN MatchFrom(genres, rs, g + 1, 1, case_sensitive, partial_match)
    ELSE LET mt == MatchType(genres[g], rs[r].genre, case_sensitive, partial_match)
         IN IF mt # ""
            THEN Some([playlist_id   |-> rs[r].playlist_id,
                       matched_genre |-> genres[g],
                       rule_genre    |-> rs[r].genre,
                       match_type    |-> mt])
            ELSE MatchFrom(genres, rs, g, r + 1, case_sensitive, partial_match)

\* (a variant whose scan of the first genre starts at the second rule)
MatchGenresToPlaylist_FromSecondRule(genres, rs, case_sensitive, partial_match) ==
    MatchFrom(genres, rs, 1, 2, case_sensitive, partial_match)

MatchGenresToPlaylist(genres, rs, case_sensitive, partial_match) ==
    MatchFrom(genres, rs, 1, 1, case_sensitive, partial_match)

(***************************************************************************)
(* get_playlist_tracks_set                                                 *)
(***************************************************************************)
\* number of page requests a full listing of a playlist of n entries takes
PlaylistPages(n) == IF n = 0 THEN 1 ELSE (n + PlaylistPage - 1) \div PlaylistPage

\* track_ids when the loop ends: fail_at is None (every page answered) or
\* Some(k), the request for page k raised and the loop broke
ListedTrackIds(entries, fail_at) ==
    IF fail_at = None THEN Range(entries)
    ELSE Range(SubSeq(entries, 1, Min((fail_at[1] - 1) * PlaylistPage, Len(entries))))

(***************************************************************************)
(* Settings of the configuration file (the defaults of the source).        *)
(***************************************************************************)
CaseSensitive == FALSE
PartialMatch == TRUE
DefaultSettings == [case_sensitive |-> CaseSensitive, partial_match |-> PartialMatch]

\* the configurations: no rules (a missing or unparseable file), or one rule
Configs == {<<>>, <<[genre |-> Jazz, playlist_id |-> "PX"]>>}

(***************************************************************************)
(* Initial state: nothing liked yet, no history file, no process.          *)
(***************************************************************************)
ZeroStats ==
    [total_liked |-> 0, new_tracks |-> 0, processed |-> 0, sorted |-> 0,
     skipped |-> 0, duplicates |-> 0, errors |-> 0]

NoResult ==
    [track_id |-> "", action |-> "skipped", playlist_id |-> None,
     match_details |-> None, genres_found |-> <<>>]

NoOp == [name |-> "none", mode |-> "none", start_date |-> None, start_index |-> None]

NoPrev ==
    [op |-> NoOp, liked |-> <<>>, processed_tracks |-> EmptyHistory.processed_tracks,
     start_date |-> None, start_index |-> None]

NoObs ==
    [likedAtCall  |-> <<>>,
     ledgerAtCall |-> EmptyHistory,
     enumerated   |-> None,
     failed_at    |-> None,
     existing     |-> None,
     add_ok       |-> None,
     remoteAtCheck |-> {},
     last         |-> None,
     adds         |-> [t \in Tracks |-> 0],
     prev         |-> NoPrev]

Init ==
    /\ liked = <<>>
    /\ playlist \in {[p \in Playlists |-> <<>>], [p \in Playlists |-> <<"t1">>]}
    /\ rules \in Configs
    /\ settings = DefaultSettings
    /\ disk = [kind |-> "absent", data |-> NoDocument]
    /\ pc = "idle"
    /\ op = NoOp
    /\ history = EmptyHistory
    /\ artist_genre_cache = [a \in Artists |-> None]
    /\ playlist_cache = [p \in Playlists |-> None]
    /\ stats = ZeroStats
    /\ all_tracks = <<>>
    /\ offset = 0
    /\ new_tracks = <<>>
    /\ idx = 0
    /\ result = NoResult
    /\ faults = 0
    /\ calls = 0
    /\ obs = NoObs

(***************************************************************************)
(* The environment: the user likes a track (it enters at the head of the   *)
(* listing), the process is killed.                                        *)
(***************************************************************************)
remote == <<liked, playlist>>

\* date.today(): the process is started at most once a day, so the calendar
\* day is the number of invocations so far (day 0 lies before the first)
Today == calls
files == <<rules, settings, disk>>
object == <<history, artist_genre_cache, playlist_cache, stats>>
locals == <<all_tracks, offset, new_tracks, idx, result>>
budget == <<faults, calls>>

\* the order in which the user comes to like the tracks of the catalogue
LikeOrder == <<"t1", "t2">>

UserLikes(t) ==
    /\ pc \in {"idle", "dead", "bl_enum", "enum"}
    /\ Len(liked) < Len(LikeOrder)
    /\ t = LikeOrder[Len(liked) + 1]
    /\ liked' = <<[track |-> Some(t), added_at |-> <<Today, Len(liked)>>]>> \o liked
    /\ UNCHANGED <<playlist, files, pc, op, object, locals, budget, obs>>

Crash ==
    /\ pc \notin {"idle", "dead"}
    /\ faults < MaxFaults
    /\ faults' = faults + 1
    /\ pc' = "dead"
    /\ history' = EmptyHistory
    /\ artist_genre_cache' = [a \in Artists |-> None]
    /\ playlist_cache' = [p \in Playlists |-> None]
    /\ stats' = ZeroStats
    /\ all_tracks' = <<>>
    /\ offset' = 0
    /\ new_tracks' = <<>>
    /\ idx' = 0
    /\ result' = NoResult
    /\ op' = NoOp
    /\ obs' = [NoObs EXCEPT !.adds = obs.adds]
    /\ UNCHANGED <<remote, files, calls>>

(***************************************************************************)
(* A process starts: __init__ loads the history and starts with cold       *)
(* caches and zero statistics; then the call begins.                       *)
(***************************************************************************)
ArgDates == {None, Some(1)}
ArgIndexes == {None, Some(0), Some(1)}

Args ==
    {[mode |-> "none", start_date |-> None, start_index |-> None]}
    \cup {[mode |-> "date", start_date |-> d, start_index |-> None] : d \in ArgDates}
    \cup {[mode |-> "index", start_date |-> None, start_index |-> n] : n \in ArgIndexes}

\* what the finished call left, kept for comparison with the next call
Snapshot ==
    IF pc = "idle" /\ op.name # "none"
    THEN [op |-> op, liked |-> obs.likedAtCall,
          processed_tracks |-> history.processed_tracks,
          start_date |-> history.start_date, start_index |-> history.start_index]
    ELSE NoPrev

Construct(name, a) ==
    /\ pc \in {"idle", "dead"}
    /\ calls < MaxCalls
    /\ calls' = calls + 1
    /\ op' = [name |-> name, mode |-> a.mode, start_date |-> a.start_date,
              start_index |-> a.start_index]
    /\ history' = LoadProcessingHistory(disk)
    /\ artist_genre_cache' = [x \in Artists |-> None]
    /\ playlist_cache' = [p \in Playlists |-> None]
    /\ stats' = ZeroStats
    /\ all_tracks' = <<>>
    /\ offset' = 0
    /\ new_tracks' = <<>>
    /\ idx' = 0
    /\ result' = NoResult
    /\ obs' = [NoObs EXCEPT !.likedAtCall = liked,
                            !.ledgerAtCall = LoadProcessingHistory(disk),
                            !.adds = obs.adds,
                            !.prev = Snapshot]
    /\ UNCHANGED <<remote, files, faults>>

\* (a variant of run() without the test of self.rules at line 463)
CallRun_NoRulesTest(a) ==
    /\ Construct("run", a)
    /\ pc' = IF a.mode # "none" /\ ~BaselineInitialized(LoadProcessingHistory(disk))
             THEN "bl_enum"
             ELSE "enum"

\* run(): lines 463-471, up to the first remote request
CallRun(a) ==
    /\ Construct("run", a)
    /\ pc' = IF rules = <<>> THEN "idle"
             ELSE IF a.mode # "none" /\ ~BaselineInitialized(LoadProcessingHistory(disk))
                  THEN "bl_enum"
                  ELSE "enum"

\* initialize_baseline(): lines 104-111, up to the first remote request
CallInitializeBaseline(a) ==
    /\ Construct("initialize_baseline", a)
    /\ pc' = IF BaselineInitialized(LoadProcessingHistory(disk)) THEN "idle" ELSE "bl_enum"

(***************************************************************************)
(* get_all_liked_songs: one GET /me/tracks per step.                       *)
(***************************************************************************)
\* the page the service answers for the current offset
LikedPage == Slice(liked, offset, offset + PageLimit)

\* the tracks of a page that are kept: those with a track object and an id
KeptTracks(items) ==
    LET HasTrack(item) == item.track # None
        AsTrack(item) == [id |-> item.track[1], liked_at |-> item.added_at]
        kept == SelectSeq(items, HasTrack)
    IN [k \in 1..Len(kept) |-> AsTrack(kept[k])]

\* where the caller goes on when the listing loop ends
AfterListing == IF pc = "bl_enum" THEN "bl_mark" ELSE "filter"

Enumerated(tracks) ==
    IF pc = "enum" THEN [obs EXCEPT !.enumerated = Some(tracks)] ELSE obs

\* a remote request of the call raised: the position in new_tracks of the
\* track in process at the first such request (0 during the listings)
Rejected(o) == IF o.failed_at = None THEN [o EXCEPT !.failed_at = Some(idx)] ELSE o

\* (a variant whose offset advances by the tracks kept, not by the items
\* received)
LikedPageAnswered_AdvanceByKept ==
    /\ pc \in {"bl_enum", "enum"}
    /\ LikedPage # <<>>
    /\ all_tracks' = all_tracks \o KeptTracks(LikedPage)
    /\ offset' = offset + Len(KeptTracks(LikedPage))
    /\ UNCHANGED <<remote, files, pc, op, object, new_tracks, idx, result, budget, obs>>

\* a page with items: they are appended and the offset advances
LikedPageAnswered ==
    /\ pc \in {"bl_enum", "enum"}
    /\ LikedPage # <<>>
    /\ all_tracks' = all_tracks \o KeptTracks(LikedPage)
    /\ offset' = offset + Len(LikedPage)
    /\ UNCHANGED <<remote, files, pc, op, object, new_tracks, idx, result, budget, obs>>

\* an empty page: the loop ends
LikedPageEmpty ==
    /\ pc \in {"bl_enum", "enum"}
    /\ LikedPage = <<>>
    /\ pc' = AfterListing
    /\ obs' = Enumerated(all_tracks)
    /\ UNCHANGED <<remote, files, op, object, locals, budget>>

\* the request raises: the loop ends with what was collected
LikedPageFailed ==
    /\ pc \in {"bl_enum", "enum"}
    /\ faults < MaxFaults
    /\ faults' = faults + 1
    /\ pc' = AfterListing
    /\ obs' = Rejected(Enumerated(all_tracks))
    /\ UNCHANGED <<remote, files, op, object, locals, calls>>

(***************************************************************************)
(* initialize_baseline after its listing: mark, then save (lines 113-146). *)
(***************************************************************************)
SaveCost(outcome) == IF outcome = "written" THEN 0 ELSE 1

BaselineMark(outcome) ==
    /\ pc = "bl_mark"
    /\ faults + SaveCost(outcome) <= MaxFaults
    /\ faults' = faults + SaveCost(outcome)
    /\ LET marked == ApplyBaseline(history, op.mode, op.start_date, op.start_index,
                                   all_tracks, Today)
       IN /\ history' = Stamped(marked, Today)
          /\ disk' = SavedFile(Stamped(marked, Today), disk, outcome)
    /\ pc' = IF op.name = "run" THEN "enum" ELSE "idle"
    /\ all_tracks' = IF op.name = "run" THEN <<>> ELSE all_tracks
    /\ offset' = IF op.name = "run" THEN 0 ELSE offset
    /\ UNCHANGED <<remote, rules, settings, op, artist_genre_cache, playlist_cache, stats,
                   new_tracks, idx, result, calls, obs>>

(***************************************************************************)
(* run after its listing: lines 475-497.                                   *)
(***************************************************************************)
Filter ==
    /\ pc = "filter"
    /\ LET new == FilterNewTracks(history, all_tracks)
       IN /\ new_tracks' = IF all_tracks = <<>> THEN <<>> ELSE new
          /\ stats' = [stats EXCEPT !.total_liked = Len(all_tracks),
                                    !.new_tracks = IF all_tracks = <<>> THEN 0 ELSE Len(new)]
          /\ pc' = IF all_tracks = <<>> \/ new = <<>> THEN "idle" ELSE "genres"
          /\ idx' = IF all_tracks = <<>> \/ new = <<>> THEN 0 ELSE 1
    /\ UNCHANGED <<remote, files, op, history, artist_genre_cache, playlist_cache,
                   all_tracks, offset, result, budget, obs>>

(***************************************************************************)
(* process_track, one remote request per step.                             *)
(***************************************************************************)
\* (a variant that takes the new tracks from the far end of the list)
Current_OldestFirst == new_tracks[Len(new_tracks) + 1 - idx]

\* the track in process
Current == new_tracks[idx]

\* lines 382-392: the result every early return hands back
StartResult(track) ==
    [track_id |-> track.id, action |-> "skipped", playlist_id |-> None,
     match_details |-> None, genres_found |-> <<>>]

\* lines 419-423
DuplicateResult(res, playlist_id) ==
    [res EXCEPT !.action = "duplicate", !.playlist_id = Some(playlist_id)]

\* (a variant that forgets the destination of a sorted track)
SortedResult_NoPlaylist(res, playlist_id) == [res EXCEPT !.action = "sorted"]

\* lines 426-429
SortedResult(res, playlist_id) ==
    [res EXCEPT !.action = "sorted", !.playlist_id = Some(playlist_id)]

\* (a variant that leaves the action of a failed add as it was)
ErrorResult_Unset(res) == res

\* lines 434-436
ErrorResult(res) == [res EXCEPT !.action = "error"]

\* lines 399-415: genres, then the match; the requests of the batches whose
\* number is in failing raise
ResolveTagsWith(failing) ==
    /\ \E artist_ids \in {TrackArtists(Current.id)} :
       \E cache \in {GenreCacheAfter(artist_genre_cache, artist_ids, failing)} :
       \E genres \in {TrackGenres(cache, artist_ids)} :
       \E match \in {MatchGenresToPlaylist(genres, rules, settings.case_sensitive,
                                           settings.partial_match)} :
          /\ faults + Cardinality(failing) <= MaxFaults
          /\ faults' = faults + Cardinality(failing)
          /\ artist_genre_cache' = cache
          /\ result' = [StartResult(Current) EXCEPT !.genres_found = genres,
                                                    !.match_details = match]
          /\ pc' = IF genres = <<>> \/ match = None THEN "record" ELSE "dupcheck"
    /\ stats' = [stats EXCEPT !.processed = @ + 1]
    /\ obs' = IF failing = {} THEN obs ELSE Rejected(obs)
    /\ UNCHANGED <<remote, files, op, history, playlist_cache, all_tracks, offset,
                   new_tracks, idx, calls>>

ResolveTags ==
    /\ pc = "genres"
    /\ \E failing \in SUBSET (1..BatchCount(artist_genre_cache, TrackArtists(Current.id))) :
           ResolveTagsWith(failing)

\* lines 417-423: get_playlist_tracks_set, then the membership test; fail_at
\* is None, or Some(k) when the request for page k raises
DuplicateCheckWith(fail_at) ==
    /\ LET playlist_id == result.match_details[1].playlist_id
           cached == playlist_cache[playlist_id] # None
           existing == IF cached THEN playlist_cache[playlist_id][1]
                       ELSE ListedTrackIds(playlist[playlist_id], fail_at)
       IN /\ IF cached \/ fail_at = None
             THEN fail_at = None /\ UNCHANGED faults
             ELSE faults < MaxFaults /\ faults' = faults + 1
          /\ playlist_cache' = [playlist_cache EXCEPT ![playlist_id] = Some(existing)]
          /\ result' = IF result.track_id \in existing
                       THEN DuplicateResult(result, playlist_id)
                       ELSE result
          /\ pc' = IF result.track_id \in existing THEN "record" ELSE "add"
          /\ obs' = [(IF cached \/ fail_at = None THEN obs ELSE Rejected(obs))
                         EXCEPT !.existing = Some(existing),
                                !.remoteAtCheck = Range(playlist[playlist_id])]
    /\ UNCHANGED <<remote, files, op, history, artist_genre_cache, stats, all_tracks,
                   offset, new_tracks, idx, calls>>

DuplicateCheck ==
    /\ pc = "dupcheck"
    /\ \E fail_at \in {None} \cup
           {Some(k) : k \in 1..PlaylistPages(Len(playlist[result.match_details[1].playlist_id]))} :
           DuplicateCheckWith(fail_at)

\* lines 425-438 with add_track_to_playlist: the POST is answered
AddSucceeds ==
    /\ pc = "add"
    /\ LET playlist_id == result.match_details[1].playlist_id
       IN /\ playlist' = [playlist EXCEPT ![playlist_id] = Append(@, result.track_id)]
          /\ playlist_cache' = [playlist_cache EXCEPT ![playlist_id] = None]
          /\ result' = SortedResult(result, playlist_id)
    /\ obs' = [obs EXCEPT !.add_ok = Some(TRUE),
                          !.adds[result.track_id] = @ + 1]
    /\ pc' = "record"
    /\ UNCHANGED <<liked, files, op, history, artist_genre_cache, stats, all_tracks,
                   offset, new_tracks, idx, budget>>

\* (a variant in which a failed add ends the run)
AddFails_EndsRun ==
    /\ pc = "add"
    /\ faults < MaxFaults
    /\ faults' = faults + 1
    /\ result' = ErrorResult(result)
    /\ obs' = [Rejected(obs) EXCEPT !.add_ok = Some(FALSE)]
    /\ pc' = "idle"
    /\ UNCHANGED <<remote, files, op, object, all_tracks, offset, new_tracks, idx,
                   calls>>

\* lines 425-438 with add_track_to_playlist: the POST raises
AddFails ==
    /\ pc = "add"
    /\ faults < MaxFaults
    /\ faults' = faults + 1
    /\ result' = ErrorResult(result)
    /\ obs' = [Rejected(obs) EXCEPT !.add_ok = Some(FALSE)]
    /\ pc' = "record"
    /\ UNCHANGED <<remote, files, op, object, all_tracks, offset, new_tracks, idx,
                   calls>>

(***************************************************************************)
(* run: the rest of the loop body (lines 512-529) and the final save.      *)
(***************************************************************************)
\* (a variant that keeps no record of a skipped track)
RecordProcessingResult_DropSkipped(pt, track_id, res) ==
    IF res.action = "skipped" THEN pt
    ELSE [pt EXCEPT ![track_id] = [action |-> res.action, playlist_id |-> res.playlist_id]]

\* record_processing_result
RecordProcessingResult(pt, track_id, res) ==
    [pt EXCEPT ![track_id] = [action |-> res.action, playlist_id |-> res.playlist_id]]

\* lines 516-527
CountOutcome(st, res) ==
    CASE res.action = "sorted"    -> [st EXCEPT !.sorted = @ + 1]
      [] res.action = "duplicate" -> [st EXCEPT !.duplicates = @ + 1]
      [] res.action = "error"     -> [st EXCEPT !.errors = @ + 1]
      [] OTHER                    -> [st EXCEPT !.skipped = @ + 1]

Record ==
    /\ pc = "record"
    /\ history' = [history EXCEPT !.processed_tracks =
                       RecordProcessingResult(@, Current.id, result)]
    /\ stats' = CountOutcome(stats, result)
    /\ idx' = idx + 1
    /\ pc' = IF idx = Len(new_tracks) THEN "save" ELSE "genres"
    /\ result' = NoResult
    /\ obs' = [obs EXCEPT !.existing = None, !.add_ok = None, !.remoteAtCheck = {},
                          !.last = Some([id |-> Current.id, action |-> result.action,
                                         playlist_id |-> result.playlist_id,
                                         add_ok |-> obs.add_ok])]
    /\ UNCHANGED <<remote, files, op, artist_genre_cache, playlist_cache, all_tracks,
                   offset, new_tracks, budget>>

\* line 532: _save_processing_history, then run returns
Save(outcome) ==
    /\ pc = "save"
    /\ faults + SaveCost(outcome) <= MaxFaults
    /\ faults' = faults + SaveCost(outcome)
    /\ history' = Stamped(history, Today)
    /\ disk' = SavedFile(Stamped(history, Today), disk, outcome)
    /\ pc' = "idle"
    /\ UNCHANGED <<remote, rules, settings, op, artist_genre_cache, playlist_cache, stats, locals,
                   calls, obs>>

(***************************************************************************)
(* The specification.                                                      *)
(***************************************************************************)
InitArgs == {a \in Args : a.mode # "none"}

Next ==
    \/ \E t \in Tracks : UserLikes(t)
    \/ Crash
    \/ \E a \in Args : CallRun(a)
    \/ \E a \in InitArgs : CallInitializeBaseline(a)
    \/ LikedPageAnswered
    \/ LikedPageEmpty
    \/ LikedPageFailed
    \/ \E outcome \in SaveOutcomes : BaselineMark(outcome)
    \/ Filter
    \/ ResolveTags
    \/ DuplicateCheck
    \/ AddSucceeds
    \/ AddFails
    \/ Record
    \/ \E outcome \in SaveOutcomes : Save(outcome)

Spec == Init /\ [][Next]_vars

(***************************************************************************)
(* Vocabulary of the properties.                                           *)
(***************************************************************************)
\* run() has returned
RunReturned == pc = "idle" /\ op.name = "run"

\* a track is in process (between the start of process_track and the record)
InProcessing == pc \in {"genres", "dupcheck", "add", "record"}

\* add-to-playlist calls of the run in progress: each ends sorted or error
AddCalls == stats.sorted + stats.errors + (IF obs.add_ok # None THEN 1 ELSE 0)

HasEntry(h, t) == h.processed_tracks[t] # NoEntry

Ids(tracks) == {tracks[k].id : k \in 1..Len(tracks)}

\* the previous call was a completed run() with the same arguments, the
\* liked-songs listing has not changed since that run began, and this run
\* loaded the ledger as that run left it
SecondRunSameListing ==
    /\ RunReturned
    /\ obs.prev.op = op
    /\ obs.prev.liked = liked
    /\ obs.likedAtCall = liked
    /\ obs.ledgerAtCall.processed_tracks = obs.prev.processed_tracks
    /\ obs.ledgerAtCall.start_date = obs.prev.start_date
    /\ obs.ledgerAtCall.start_index = obs.prev.start_index

(***************************************************************************)
(* C1. Idempotence of run(): a run that follows a completed run with the   *)
(* same liked-songs listing records no 'sorted' outcome, issues no add     *)
(* call and leaves processed_tracks, start_date and start_index as the     *)
(* first run left them.                                                    *)
(***************************************************************************)
C1_Idempotence ==
    SecondRunSameListing =>
        /\ stats.sorted = 0
        /\ AddCalls = 0
        /\ history.processed_tracks = obs.prev.processed_tracks
        /\ history.start_date = obs.prev.start_date
        /\ history.start_index = obs.prev.start_index

\* the same, for behaviours in which no request and no file write has failed
C1_IdempotenceWithoutFaults == faults = 0 => C1_Idempotence

C1_SecondRunReached ==
    SecondRunSameListing /\ faults = 0 /\ Len(liked) = 2 /\ stats.total_liked = 2

(***************************************************************************)
(* C2. Ledger coverage: when run() returns, every id its enumeration       *)
(* returned is a key of processed_tracks.                                  *)
(***************************************************************************)
C2_LedgerCoverage ==
    (RunReturned /\ obs.enumerated # None) =>
        \A t \in Ids(obs.enumerated[1]) : HasEntry(history, t)

C2_RunCoveredTwoTracks ==
    /\ RunReturned
    /\ obs.enumerated # None
    /\ Ids(obs.enumerated[1]) = Tracks
    /\ stats.processed = 2

(***************************************************************************)
(* C3. Duplicate safety: when the destination chosen by the match holds    *)
(* the track's id at the time of the duplicate check, the outcome is       *)
(* 'duplicate' and no add call is issued, also when the membership listing *)
(* request fails.                                                          *)
(***************************************************************************)
C3_DuplicateSafety ==
    (obs.existing # None /\ result.track_id \in obs.remoteAtCheck) =>
        /\ result.action = "duplicate"
        /\ pc # "add"
        /\ obs.add_ok = None

(***************************************************************************)
(* C4. Exactly-once-effective placement: over all runs, crashes and        *)
(* failed requests included, a track is successfully added to its          *)
(* destination at most once.                                               *)
(***************************************************************************)
C4_AddedAtMostOnce == \A t \in Tracks : obs.adds[t] <= 1

(***************************************************************************)
(* C5. Baseline idempotence: once a baseline marker is set (also index 0), *)
(* no later call enumerates for a baseline or changes the markers.         *)
(***************************************************************************)
MarkerSet(h) == h.start_date # None \/ h.start_index # None

C5_BaselineIdempotence ==
    MarkerSet(obs.ledgerAtCall) =>
        /\ pc \notin {"bl_enum", "bl_mark"}
        /\ history.start_date = obs.ledgerAtCall.start_date
        /\ history.start_index = obs.ledgerAtCall.start_index

(***************************************************************************)
(* C6. The baseline markers are mutually exclusive: at most one of         *)
(* start_date and start_index is non-null.                                 *)
(***************************************************************************)
C6_MarkersExclusive == ~(history.start_date # None /\ history.start_index # None)

(***************************************************************************)
(* C7. Write-once entries: no step of a process changes an entry that      *)
(* processed_tracks already holds.                                         *)
(***************************************************************************)
C7_WriteOnce ==
    [][(pc \notin {"idle", "dead"} /\ pc' # "dead") =>
          \A t \in Tracks :
              HasEntry(history, t) =>
                  history'.processed_tracks[t] = history.processed_tracks[t]]_vars

C9_OutcomeFunction ==
    /\ pc = "record" =>
          LET unmatched == result.genres_found = <<>> \/ result.match_details = None
              present == obs.existing # None /\ result.track_id \in obs.existing[1]
          IN /\ result.action \in {"skipped", "duplicate", "sorted", "error"}
             /\ result.action = "skipped" <=> unmatched
             /\ result.action = "duplicate" <=> (~unmatched /\ present)
             /\ result.action = "sorted" <=>
                   (~unmatched /\ ~present /\ obs.add_ok = Some(TRUE))
             /\ result.action = "error" <=>
                   (~unmatched /\ ~present /\ obs.add_ok = Some(FALSE))
             /\ unmatched => obs.existing = None /\ obs.add_ok = None
             /\ present => obs.add_ok = None
    /\ (obs.last # None /\ pc \in {"genres", "save"}) =>
          history.processed_tracks[obs.last[1].id] =
              [action |-> obs.last[1].action, playlist_id |-> obs.last[1].playlist_id]

C9_JazzSortedMetalSkipped ==
    /\ RunReturned
    /\ obs.ledgerAtCall.processed_tracks = EmptyHistory.processed_tracks
    /\ history.processed_tracks["t1"] = [action |-> "sorted", playlist_id |-> Some("PX")]
    /\ history.processed_tracks["t2"] = [action |-> "skipped", playlist_id |-> None]

(***************************************************************************)
(* C10. Every 'sorted' entry has a playlist_id; every 'baseline' or        *)
(* 'skipped' entry has none.                                               *)
(***************************************************************************)
EntryShape(e) ==
    /\ e.action = "sorted" => e.playlist_id # None
    /\ e.action \in {"baseline", "skipped"} => e.playlist_id = None

C10_EntryShape ==
    \A t \in Tracks :
        /\ EntryShape(history.processed_tracks[t])
        /\ EntryShape(LoadProcessingHistory(disk).processed_tracks[t])

C10_SortedAndBaseline ==
    /\ disk.kind = "ok"
    /\ \E t \in Tracks : LoadProcessingHistory(disk).processed_tracks[t].action = "sorted"
    /\ \E t \in Tracks : LoadProcessingHistory(disk).processed_tracks[t].action = "baseline"

(***************************************************************************)
(* The matcher on its own: match_genres_to_playlist applied to the genres  *)
(* of one track under every configuration of a bounded size.               *)
(***************************************************************************)
\* rules in a configuration, genres of a track
MaxRules == 2
MaxGenres == 2

MatchStrings == {Rock, RockUpper, IndieRock, Pop, DreamPop, Metal}
Destinations == {"PA", "PB"}

\* sequences of at most n distinct members of S
DistinctSeqs(S, n) ==
    {q \in UNION {[1..k -> S] : k \in 0..n} :
        \A i, j \in 1..Len(q) : i # j => q[i] # q[j]}

\* the "rules" object of the configuration file: its keys are distinct
RuleLists ==
    {[k \in 1..Len(q) |-> [genre |-> q[k], playlist_id |-> d[k]]] :
        <<q, d>> \in {qd \in DistinctSeqs(MatchStrings, MaxRules)
                               \X UNION {[1..k -> Destinations] : k \in 0..MaxRules} :
                         Len(qd[1]) = Len(qd[2])}}

\* what get_track_genres returns: unique genres
GenreLists == DistinctSeqs(MatchStrings, MaxGenres)

Settings == [case_sensitive : BOOLEAN, partial_match : BOOLEAN]

InitMatch ==
    /\ rules \in RuleLists
    /\ settings \in Settings
    /\ result \in {[NoResult EXCEPT !.genres_found = g] : g \in GenreLists}
    /\ pc = "match"
    /\ liked = <<>>
    /\ playlist = [p \in Playlists |-> <<>>]
    /\ disk = [kind |-> "absent", data |-> NoDocument]
    /\ op = NoOp
    /\ history = EmptyHistory
    /\ artist_genre_cache = [a \in Artists |-> None]
    /\ playlist_cache = [p \in Playlists |-> None]
    /\ stats = ZeroStats
    /\ all_tracks = <<>>
    /\ offset = 0
    /\ new_tracks = <<>>
    /\ idx = 0
    /\ faults = 0
    /\ calls = 0
    /\ obs = NoObs

\* line 408: match = self.match_genres_to_playlist(genres)
Match ==
    /\ pc = "match"
    /\ result' = [result EXCEPT !.match_details =
                      MatchGenresToPlaylist(result.genres_found, rules,
                                            settings.case_sensitive,
                                            settings.partial_match)]
    /\ pc' = "matched"
    /\ UNCHANGED <<remote, files, op, object, all_tracks, offset, new_tracks, idx,
                   budget, obs>>

NextMatch == Match

SpecMatch == InitMatch /\ [][NextMatch]_vars

(***************************************************************************)
(* Vocabulary of the matcher's properties.                                 *)
(***************************************************************************)
Matched == pc = "matched"

\* a occurs in b as a contiguous run of characters
Occurs(a, b) ==
    \E k \in 0..Len(b) :
        /\ k + Len(a) <= Len(b)
        /\ \A j \in 1..Len(a) : b[k + j] = a[j]

\* the string as the configured case handling compares it
Normal(str) == IF settings.case_sensitive THEN str ELSE Lower(str)

\* the tag satisfies the rule tag under the configured match kind
Satisfies(tag, rule_tag) ==
    IF settings.partial_match
    THEN Occurs(Normal(rule_tag), Normal(tag)) \/ Occurs(Normal(tag), Normal(rule_tag))
    ELSE Normal(rule_tag) = Normal(tag)

\* positions <<g, r>> of the (tag, rule) pairs that satisfy the match kind
SatisfyingPairs ==
    {p \in (1..Len(result.genres_found)) \X (1..Len(rules)) :
        Satisfies(result.genres_found[p[1]], rules[p[2]].genre)}

\* position in the configuration of the rule with this rule tag
RuleIndex(rule_tag) == CHOOSE r \in 1..Len(rules) : rules[r].genre = rule_tag

\* position in the tag list of this tag
TagIndex(tag) == CHOOSE g \in 1..Len(result.genres_found) : result.genres_found[g] = tag

RockThenIndieRock ==
    <<[genre |-> Rock, playlist_id |-> "PA"], [genre |-> IndieRock, playlist_id |-> "PB"]>>

\* C11: the matcher returns the first (tag, rule) pair that satisfies the
\* match kind, tags in the given order and, for each tag, rules in
\* configuration order, and None when no pair does; with rules
\* [(rock, A), (indie rock, B)] and tags [indie rock] under partial matching
\* the result is rule 'rock', destination A.
C11_FirstPairTagMajor ==
    Matched =>
        LET m == result.match_details
            genres == result.genres_found
        IN /\ (m = None) <=> (SatisfyingPairs = {})
           /\ m # None =>
                 \E p \in SatisfyingPairs :
                    /\ \A q \in SatisfyingPairs :
                          p[1] < q[1] \/ (p[1] = q[1] /\ p[2] <= q[2])
                    /\ m[1].matched_genre = genres[p[1]]
                    /\ m[1].rule_genre = rules[p[2]].genre
                    /\ m[1].playlist_id = rules[p[2]].playlist_id
           /\ (genres = <<IndieRock>> /\ rules = RockThenIndieRock
                  /\ settings.partial_match)
                 => (m # None /\ m[1].rule_genre = Rock /\ m[1].playlist_id = "PA")

C11_RockWinsOverIndieRock ==
    /\ Matched
    /\ result.genres_found = <<IndieRock>>
    /\ rules = RockThenIndieRock
    /\ settings.partial_match
    /\ result.match_details # None
    /\ result.match_details[1].playlist_id = "PA"

\* C12 as stated: the rule returned is the earliest rule in configuration
\* order that some tag of the item satisfies.
C12_EarliestRuleOfAnyTag ==
    (Matched /\ result.match_details # None) =>
        \A p \in SatisfyingPairs :
            RuleIndex(result.match_details[1].rule_genre) <= p[2]

\* C12: the tag returned is the first tag that satisfies any rule, and the
\* rule returned is the earliest rule in configuration order that this tag
\* satisfies; an earlier rule that only a later tag satisfies does not win.
C12_EarliestRuleOfFirstMatchingTag ==
    (Matched /\ result.match_details # None) =>
        LET m == result.match_details[1]
        IN \A p \in SatisfyingPairs :
              /\ TagIndex(m.matched_genre) <= p[1]
              /\ p[1] = TagIndex(m.matched_genre) => RuleIndex(m.rule_genre) <= p[2]

\* the second rule is returned although a later tag satisfies the first rule
C12_LaterRuleReturned ==
    /\ Matched
    /\ result.match_details # None
    /\ RuleIndex(result.match_details[1].rule_genre) = 2
    /\ \E p \in SatisfyingPairs : p[2] = 1 /\ p[1] = 2

\* one tag against a configuration of one rule
OneTagOneRule(tag, rule_tag) ==
    /\ result.genres_found = <<tag>>
    /\ Len(rules) = 1
    /\ rules[1].genre = rule_tag

\* C13: under partial matching a tag matches a rule iff the rule tag is a
\* substring of the tag or the tag is a substring of the rule tag, after
\* lower-casing unless case_sensitive is set; tag 'pop' matches rule
\* 'dream pop' and tag 'dream pop' matches rule 'pop'.
C13_PartialEitherDirection ==
    (Matched /\ settings.partial_match) =>
        LET m == result.match_details
            genres == result.genres_found
            Either(tag, rule_tag) ==
                \/ Occurs(Normal(rule_tag), Normal(tag))
                \/ Occurs(Normal(tag), Normal(rule_tag))
        IN /\ (m # None) <=>
                 (\E g \in 1..Len(genres), r \in 1..Len(rules) :
                      Either(genres[g], rules[r].genre))
           /\ m # None =>
                 /\ Either(m[1].matched_genre, m[1].rule_genre)
                 /\ m[1].match_type =
                        IF Occurs(Normal(m[1].rule_genre), Normal(m[1].matched_genre))
                        THEN "partial_rule_in_genre" ELSE "partial_genre_in_rule"
           /\ OneTagOneRule(Pop, DreamPop) => m # None
           /\ OneTagOneRule(DreamPop, Pop) => m # None
           /\ OneTagOneRule(IndieRock, RockUpper) =>
                 ((m # None) <=> ~settings.case_sensitive)

C13_PopMatchesDreamPop ==
    /\ Matched
    /\ settings.partial_match
    /\ OneTagOneRule(Pop, DreamPop)
    /\ result.match_details # None
    /\ result.match_details[1].match_type = "partial_genre_in_rule"

\* the two strings differ, and only in the case of their letters
DiffersOnlyInCase(a, b) ==
    /\ a # b
    /\ Len(a) = Len(b)
    /\ \A k \in 1..Len(a) : LowerChar(a[k]) = LowerChar(b[k])

\* C14: with partial_match disabled a tag matches a rule iff the two strings
\* are equal after lower-casing both, or equal as given when case_sensitive
\* is set; with case_sensitive set, strings that differ only in letter case
\* never match, in either match kind.
C14_ExactAndCaseSensitive ==
    Matched =>
        LET m == result.match_details
            genres == result.genres_found
        IN /\ ~settings.partial_match =>
                 /\ (m # None) <=>
                       (\E g \in 1..Len(genres), r \in 1..Len(rules) :
                            Normal(genres[g]) = Normal(rules[r].genre))
                 /\ m # None =>
                       /\ Normal(m[1].matched_genre) = Normal(m[1].rule_genre)
                       /\ m[1].match_type = "exact"
                 /\ OneTagOneRule(RockUpper, Rock) =>
                       ((m # None) <=> ~settings.case_sensitive)
           /\ (settings.case_sensitive /\ m # None) =>
                 ~DiffersOnlyInCase(m[1].matched_genre, m[1].rule_genre)
           /\ (settings.case_sensitive /\ OneTagOneRule(Rock, RockUpper)) => m = None

C14_RockMatchesRockUpperExact ==
    /\ Matched
    /\ ~settings.partial_match
    /\ ~settings.case_sensitive
    /\ OneTagOneRule(RockUpper, Rock)
    /\ result.match_details # None
    /\ result.match_details[1].match_type = "exact"

(***************************************************************************)
(* Vocabulary of the baseline properties.                                  *)
(***************************************************************************)
\* the step of initialize_baseline that marks and saves (lines 113-146)
BaselineMarked == pc = "bl_mark" /\ pc' \in {"enum", "idle"}

IsBaseline(h, t) == h.processed_tracks[t].action = "baseline"

\* initialize_baseline() has returned to its caller, the listing still at hand
BaselineReturned == pc = "idle" /\ op.name = "initialize_baseline"

\* C15: initialize_baseline('date', start_date = D) marks an enumerated track
\* as baseline iff the date of its liked_at is strictly earlier than D; a
\* track liked on D is not marked.
C15_DateBoundary ==
    [][(BaselineMarked /\ op.mode = "date" /\ op.start_date # None) =>
          \A k \in 1..Len(all_tracks) :
              IsBaseline(history', all_tracks[k].id)
                  <=> DateOf(all_tracks[k].liked_at) < op.start_date[1]]_vars

C15_EarlierMarkedSameDayNot ==
    /\ BaselineReturned
    /\ op.mode = "date"
    /\ op.start_date = Some(1)
    /\ \E i, j \in 1..Len(all_tracks) :
          /\ DateOf(all_tracks[i].liked_at) = 0
          /\ IsBaseline(history, all_tracks[i].id)
          /\ DateOf(all_tracks[j].liked_at) = 1
          /\ ~HasEntry(history, all_tracks[j].id)

\* C16: initialize_baseline in date mode with no start_date (the date
\* defaults to today) marks every track of its listing as baseline.
C16_DefaultDateMarksListing ==
    [][(BaselineMarked /\ op.mode = "date" /\ op.start_date = None) =>
          \A k \in 1..Len(all_tracks) : IsBaseline(history', all_tracks[k].id)]_vars

\* the start index initialize_baseline uses in index mode (lines 131-132)
UsedIndex == IF op.start_index = None THEN Len(all_tracks) ELSE op.start_index[1]

\* the marking step of index mode marks exactly the tracks at positions
\* 0..N-1 of its listing (all of them when N exceeds the count), no others
IndexPositionsMarked ==
    (BaselineMarked /\ op.mode = "index") =>
        \A t \in Tracks :
            IsBaseline(history', t)
                <=> t \in Ids(SubSeq(all_tracks, 1, Min(UsedIndex, Len(all_tracks))))

\* with N omitted, every track liked when the call began is baseline after
\* the marking step
IndexDefaultMarksAll ==
    (BaselineMarked /\ op.mode = "index" /\ op.start_index = None) =>
        \A k \in 1..Len(obs.likedAtCall) :
            IsBaseline(history', obs.likedAtCall[k].track[1])

\* C17: initialize_baseline('index', start_index = N) marks as baseline
\* exactly the tracks at positions 0..N-1 of the newest-first listing and no
\* others; when N is omitted it is the full count, so every track existing
\* at that time is baseline.
C17_IndexBaseline == [][IndexPositionsMarked /\ IndexDefaultMarksAll]_vars

\* the positional half of C17 alone
C17_PositionsOnly == [][IndexPositionsMarked]_vars

\* C17 when no request of the listing has failed
C17_IndexBaselineWithoutFaults ==
    [][faults = 0 => (IndexPositionsMarked /\ IndexDefaultMarksAll)]_vars

(***************************************************************************)
(* Vocabulary of the failure properties.                                   *)
(***************************************************************************)
\* the ledger, in memory and on disk, is as the call found it
LedgerAsLoaded ==
    /\ history = obs.ledgerAtCall
    /\ LoadProcessingHistory(disk) = obs.ledgerAtCall

\* a page request of a liked-songs listing of this call has raised
ListingFailed == obs.failed_at = Some(0)

\* C18: when a page request of the liked-songs listing has failed, the call
\* aborts: no baseline marker is set, no track is marked baseline or
\* classified, no add call is issued and the ledger is not changed.
C18_EnumerationFailureFatal ==
    ListingFailed =>
        /\ ~InProcessing
        /\ LedgerAsLoaded
        /\ stats.processed = 0
        /\ AddCalls = 0

\* a step of _save_processing_history whose write of the history file fails
SaveFailed ==
    /\ pc \in {"save", "bl_mark"}
    /\ faults' = faults + 1
    /\ pc' # "dead"

\* the call returns to its caller as completed ("idle"), or run goes on
\* after initialize_baseline has returned to it ("enum")
NormalCompletion == pc' \in {"idle", "enum"}

\* C19: when the write of the history file fails, the failure surfaces to
\* the caller: the run or the baseline initialization does not end as a
\* normal completion.
C19_SaveFailureSurfaces == [][SaveFailed => ~NormalCompletion]_vars

\* C20: when a remote request of a run is rejected (listing, genre batch,
\* playlist listing or add), the run ends at that request: no track after
\* the one in process is classified or recorded in the ledger.
C20_RejectionEndsRun ==
    (op.name = "run" /\ obs.failed_at # None) =>
        LET at == obs.failed_at[1]
            UpTo == Ids(SubSeq(new_tracks, 1, at))
        IN /\ stats.processed <= at
           /\ \A k \in (at + 1)..Len(new_tracks) :
                 new_tracks[k].id \notin UpTo => ~HasEntry(history, new_tracks[k].id)

\* the object has issued no remote request since it was constructed
NoRequestIssued ==
    /\ all_tracks = <<>>
    /\ offset = 0
    /\ obs.enumerated = None
    /\ obs.failed_at = None
    /\ stats = ZeroStats
    /\ artist_genre_cache = [a \in Artists |-> None]
    /\ playlist_cache = [p \in Playlists |-> None]
    /\ AddCalls = 0

\* C21: when the configuration file is missing or unparseable (no rules),
\* run() returns without a remote request, without initializing a baseline
\* and without changing or saving the ledger.
C21_NoRulesNoEffect ==
    (op.name = "run" /\ rules = <<>>) =>
        /\ pc = "idle"
        /\ NoRequestIssued
        /\ LedgerAsLoaded

C21_ReturnedWithLibraryUnread ==
    /\ RunReturned
    /\ rules = <<>>
    /\ op.mode = "date"
    /\ liked # <<>>
    /\ calls = 2

\* the step that constructs the object of a new process
Constructed == calls' = calls + 1

\* C22: when the history file is absent or is not valid JSON, the load
\* yields the empty ledger (no processed ids, baseline unset) and the call
\* starts from it as from a fresh ledger.
C22_LoadNeverFails ==
    [][(Constructed /\ disk.kind \in {"absent", "corrupt"}) =>
          /\ history' = EmptyHistory
          /\ \A t \in Tracks : ~HasEntry(history', t)
          /\ ~BaselineInitialized(history')
          /\ pc' \in {"idle", "bl_enum", "enum"}
          /\ pc' = "bl_enum" <=>
                (op'.mode # "none" /\ (op'.name = "run" => rules # <<>>))]_vars

\* a run that loaded an unparseable file has recorded a sorted track and is
\* about to save
C22_RecordedAfterCorruptLoad ==
    /\ pc = "save"
    /\ calls = 2
    /\ disk.kind = "corrupt"
    /\ obs.ledgerAtCall = EmptyHistory
    /\ \E t \in Tracks : history.processed_tracks[t].action = "sorted"

\* what a load reads from the file a successful save of h writes
Reloaded(h) == LoadProcessingHistory(SavedFile(Stamped(h, Today), disk, "written"))

TagsResolved == pc = "genres" /\ pc' \in {"record", "dupcheck"}

\* the ids get_artist_genres_batch has to request, and its batches
RequestedIds == Uncached(artist_genre_cache, TrackArtists(Current.id))

BatchOf(k) == Slice(RequestedIds, (k - 1) * BatchSize, k * BatchSize)

Batches == 1..((Len(RequestedIds) + BatchSize - 1) \div BatchSize)

\* C24: when a batch request of get_artist_genres_batch fails, every id of
\* that batch is cached with an empty genre list, the remaining batches are
\* still requested (their answers are stored), and no later call of the same
\* run requests an id that is cached: its entry stays as it is.
C24_FailSoft ==
    [][/\ TagsResolved =>
             \E failed \in SUBSET Batches :
                /\ Cardinality(failed) = faults' - faults
                /\ \A k \in failed : \A aid \in Range(BatchOf(k)) :
                       artist_genre_cache'[aid] = Some(<<>>)
                /\ \A k \in Batches \ failed : \A aid \in Range(BatchOf(k)) :
                       artist_genre_cache'[aid] = RemoteArtist(aid)
       /\ (~Constructed /\ pc' # "dead") =>
             \A aid \in Artists :
                artist_genre_cache[aid] # None
                    => artist_genre_cache'[aid] = artist_genre_cache[aid]]_vars

\* the batch of a1 failed for the first listing of t1; the second listing
\* of t1 in the same run was resolved from the cache
C24_FailedBatchServedFromCache ==
    /\ pc = "record"
    /\ idx = 2
    /\ new_tracks[1].id = "t1"
    /\ new_tracks[2].id = "t1"
    /\ artist_genre_cache["a1"] = Some(<<>>)
    /\ result.genres_found = <<>>

\* the batches, one after the other
RECURSIVE BatchesJoined(_)
BatchesJoined(k) == IF k = 0 THEN <<>> ELSE BatchesJoined(k - 1) \o BatchOf(k)

\* C25: get_artist_genres_batch requests no id that is in the cache, puts
\* each uncached id of the call in exactly one batch of at most BatchSize
\* ids, in input order, and returns a mapping whose keys are exactly the
\* requested ids, each with its cached genres (no genres for an id the
\* remote answered with null).
C25_Batching ==
    [][TagsResolved =>
          LET artist_ids == TrackArtists(Current.id)
              returned == ArtistGenresMap(artist_genre_cache', artist_ids)
          IN /\ \A aid \in Range(RequestedIds) : artist_genre_cache[aid] = None
             /\ \A aid \in Range(artist_ids) :
                   artist_genre_cache[aid] # None
                       => /\ aid \notin Range(RequestedIds)
                          /\ artist_genre_cache'[aid] = artist_genre_cache[aid]
             /\ BatchesJoined(Cardinality(Batches)) = RequestedIds
             /\ \A k \in Batches : Len(BatchOf(k)) \in 1..BatchSize
             /\ \A aid \in Artists \ Range(RequestedIds) :
                   artist_genre_cache'[aid] = artist_genre_cache[aid]
             /\ faults' = faults =>
                   \A aid \in Range(RequestedIds) :
                       artist_genre_cache'[aid] = RemoteArtist(aid)
             /\ DOMAIN returned = Range(artist_ids)
             /\ \A aid \in Range(artist_ids) :
                   returned[aid] = IF artist_genre_cache'[aid] = None THEN <<>>
                                   ELSE artist_genre_cache'[aid][1]
             /\ result'.genres_found =
                   Unique(Concat([k \in 1..Len(artist_ids) |-> returned[artist_ids[k]]]))]_vars

\* t2 (artists a3, a2) resolved without failure: a3 is a null artist and
\* maps to no genres, a2 holds the answer
C25_TwoBatchesAnswered ==
    /\ pc = "record"
    /\ Current.id = "t2"
    /\ obs.failed_at = None
    /\ artist_genre_cache["a3"] = None
    /\ artist_genre_cache["a2"] = Some(<<Metal>>)
    /\ result.genres_found = <<Metal>>

(***************************************************************************)
(* Vocabulary of the playlist cache properties.                            *)
(***************************************************************************)
\* the playlist the track in process was matched to
Destination == result.match_details[1].playlist_id

DuplicateChecked == pc = "dupcheck" /\ pc' \in {"record", "add"}

AddAnswered == pc = "add" /\ pc' = "record" /\ result'.action = "sorted"

AddRaised == pc = "add" /\ pc' = "record" /\ result'.action = "error"

\* what the steps of the playlist cache do to it (stats.sorted > 0: an add
\* of this run has succeeded, so a missing entry is one that was dropped)
CacheDiscipline ==
    /\ AddAnswered => playlist_cache'[Destination] = None
    /\ AddRaised => playlist_cache' = playlist_cache
    /\ DuplicateChecked =>
          IF playlist_cache[Destination] = None
          THEN stats.sorted > 0
                   => playlist_cache'[Destination] = Some(Range(playlist[Destination]))
          ELSE playlist_cache' = playlist_cache /\ faults' = faults
    /\ (~AddAnswered /\ ~DuplicateChecked /\ ~Constructed /\ pc' # "dead")
          => playlist_cache' = playlist_cache

\* C26: right after a successful add to D the cache has no entry for D; the
\* next duplicate check against D lists D in full and caches the listing;
\* checks until the next successful add use the cache and list nothing; a
\* failed add leaves the cache as it is.
C26_CacheInvalidation == [][CacheDiscipline]_vars

\* C26 when no request has failed
C26_CacheInvalidationWithoutFaults == [][faults' = 0 => CacheDiscipline]_vars

(***************************************************************************)
(* A run under a fair scheduler.  A call is one sequential thread: every   *)
(* statement returns and every request is answered or raises, so a run     *)
(* that has a step to take takes one.  Nothing is assumed of the user, of  *)
(* the start of runs, or of kills.  The runs are started without baseline  *)
(* arguments.                                                              *)
(***************************************************************************)
NoBaselineArgs == [mode |-> "none", start_date |-> None, start_index |-> None]

RunStep ==
    \/ LikedPageAnswered
    \/ LikedPageEmpty
    \/ LikedPageFailed
    \/ Filter
    \/ ResolveTags
    \/ DuplicateCheck
    \/ AddSucceeds
    \/ AddFails
    \/ Record
    \/ \E outcome \in SaveOutcomes : Save(outcome)

NextFair ==
    \/ \E t \in Tracks : UserLikes(t)
    \/ Crash
    \/ CallRun(NoBaselineArgs)
    \/ RunStep

SpecFair == Init /\ [][NextFair]_vars /\ WF_vars(RunStep)

\* the add call for the track in process has raised
AddFailedForItem == obs.add_ok = Some(FALSE)

\* a genre batch for the track in process has raised (no membership
\* listing and no add has been issued for the track yet)
TagBatchFailedForItem ==
    /\ pc \in {"dupcheck", "record"}
    /\ obs.failed_at = Some(idx)
    /\ obs.existing = None
    /\ obs.add_ok = None

\* the loop is over: every new track was processed and counted
AtFinalSave ==
    /\ pc = "save"
    /\ idx = Len(new_tracks) + 1
    /\ stats.processed = Len(new_tracks)
    /\ stats.sorted + stats.duplicates + stats.errors + stats.skipped = Len(new_tracks)
    /\ \A k \in 1..Len(new_tracks) : HasEntry(history, new_tracks[k].id)

\* C27: after a failed add call or a failed genre batch for one track, the
\* run processes every remaining new track and reaches the final save of
\* the ledger (unless the process is killed).
C27_FailureDoesNotStopRun ==
    (AddFailedForItem \/ TagBatchFailedForItem) ~> (AtFinalSave \/ pc = "dead")

\* the add for the first of two new tracks raised, the second was processed
\* and the run is at its final save
C27_SecondProcessedAfterFailedAdd ==
    /\ AtFinalSave
    /\ Len(new_tracks) = 2
    /\ obs.failed_at = Some(1)
    /\ stats.errors = 1
    /\ obs.last # None
    /\ obs.last[1].action # "error"

(***************************************************************************)
(* Vocabulary of the order of the processing loop.                         *)
(***************************************************************************)
RECURSIVE IsSubsequence(_, _)
IsSubsequence(s, t) ==
    IF s = <<>> THEN TRUE
    ELSE IF t = <<>> THEN FALSE
    ELSE \/ Head(s) = Head(t) /\ IsSubsequence(Tail(s), Tail(t))
         \/ IsSubsequence(s, Tail(t))

\* the process is not killed at this step
Survives == pc' # "dead"

\* the outcome of every track before position i is in the ledger in memory
RecordedBefore(i) == \A k \in 1..(i - 1) : HasEntry(history, new_tracks[k].id)

\* the steps for one track, in their order, and the end of the loop
PipelineOrder ==
    /\ (pc = "filter" /\ Survives) =>
          /\ IsSubsequence(new_tracks', all_tracks)
          /\ pc' = "genres" => idx' = 1
    /\ (pc = "genres" /\ Survives) =>
          /\ pc' \in {"dupcheck", "record"}
          /\ result'.track_id = new_tracks[idx].id
          /\ pc' = "dupcheck" <=> (result'.genres_found # <<>> /\ result'.match_details # None)
          /\ pc' = "record" => result'.action = "skipped"
          /\ playlist_cache' = playlist_cache
          /\ UNCHANGED <<remote, history, disk, new_tracks, idx>>
    /\ (pc = "dupcheck" /\ Survives) =>
          /\ pc' \in {"add", "record"}
          /\ result'.track_id = new_tracks[idx].id
          /\ pc' = "record" => result'.action = "duplicate"
          /\ UNCHANGED <<remote, history, disk, new_tracks, idx, artist_genre_cache>>
    /\ (pc = "add" /\ Survives) =>
          /\ pc' = "record"
          /\ result'.action \in {"sorted", "error"}
          /\ result'.track_id = new_tracks[idx].id
          /\ playlist' # playlist =>
                playlist' = [playlist EXCEPT ![Destination] = Append(@, new_tracks[idx].id)]
          /\ UNCHANGED <<liked, history, disk, new_tracks, idx, artist_genre_cache>>
    /\ (pc = "record" /\ Survives) =>
          /\ history'.processed_tracks[new_tracks[idx].id].action = result.action
          /\ idx' = idx + 1
          /\ pc' = IF idx = Len(new_tracks) THEN "save" ELSE "genres"
          /\ UNCHANGED <<remote, disk, new_tracks, artist_genre_cache, playlist_cache, faults>>
    /\ new_tracks' # new_tracks => (pc \in {"filter", "idle", "dead"} \/ ~Survives)
    /\ disk' # disk => pc \in {"save", "bl_mark"}

\* C28: the new tracks are processed one at a time in the order of the
\* listing; for each track the steps are genres and match, duplicate
\* check, add, record; the outcome of a track is in the ledger in memory
\* before any request for the next track; the save comes only after the
\* last track is recorded.
C28_PipelineOrder ==
    /\ [][PipelineOrder]_vars
    /\ [](InProcessing => idx \in 1..Len(new_tracks) /\ RecordedBefore(idx))
    /\ [](pc = "save" => idx = Len(new_tracks) + 1 /\ RecordedBefore(idx))

\* two new tracks, t2 listed before t1, were processed in that order and
\* the run is at its save
C28_TwoTracksInListingOrder ==
    /\ pc = "save"
    /\ Len(new_tracks) = 2
    /\ new_tracks[1].id = "t2"
    /\ new_tracks[2].id = "t1"
    /\ obs.last # None
    /\ obs.last[1].id = "t1"
    /\ playlist["PX"] # <<>>

(***************************************************************************)
(* get_all_liked_songs alone: one listing of a collection that does not    *)
(* change, every request answered.  The collection holds up to MaxLiked    *)
(* items, newest first; an item may have no track object.  The loop is     *)
(* sequential code: it takes its next step.                                *)
(***************************************************************************)
MaxLiked == 3

\* an item of the collection whose track is null
Unavailable == "-"

Collections ==
    {s \in UNION {[1..n -> Tracks \cup {Unavailable}] : n \in 0..MaxLiked} :
        \A i, j \in 1..Len(s) : (i # j /\ s[i] \in Tracks) => s[i] # s[j]}

\* the items the service holds for a collection, newest first
AsItems(s) ==
    [k \in 1..Len(s) |->
        [track |-> IF s[k] = Unavailable THEN None ELSE Some(s[k]),
         added_at |-> <<0, Len(s) - k>>]]

\* the callers of get_all_liked_songs: run (line 475) and
\* initialize_baseline (line 113)
ListingCallers ==
    {[name |-> "run", mode |-> "none", start_date |-> None, start_index |-> None],
     [name |-> "initialize_baseline", mode |-> "date", start_date |-> None,
      start_index |-> None]}

InitListing ==
    /\ liked \in {AsItems(s) : s \in Collections}
    /\ op \in ListingCallers
    /\ pc = IF op.name = "run" THEN "enum" ELSE "bl_enum"
    /\ playlist = [p \in Playlists |-> <<>>]
    /\ rules = <<[genre |-> Jazz, playlist_id |-> "PX"]>>
    /\ settings = DefaultSettings
    /\ disk = [kind |-> "absent", data |-> NoDocument]
    /\ history = EmptyHistory
    /\ artist_genre_cache = [a \in Artists |-> None]
    /\ playlist_cache = [p \in Playlists |-> None]
    /\ stats = ZeroStats
    /\ all_tracks = <<>>
    /\ offset = 0
    /\ new_tracks = <<>>
    /\ idx = 0
    /\ result = NoResult
    /\ faults = 0
    /\ calls = 1
    /\ obs = [NoObs EXCEPT !.likedAtCall = liked]

NextListing ==
    \/ LikedPageAnswered
    \/ LikedPageEmpty

SpecListing == InitListing /\ [][NextListing]_vars /\ WF_vars(NextListing)

(***************************************************************************)
(* Vocabulary of the listing properties.                                   *)
(***************************************************************************)
\* get_all_liked_songs has returned
ListingDone == pc \in {"filter", "bl_mark"}

\* the positions of the collection that hold a track
TrackPositions == {k \in 1..Len(liked) : liked[k].track # None}

\* the i-th of them, from the newest
NthTrackPosition(i) ==
    CHOOSE p \in TrackPositions : Cardinality({q \in TrackPositions : q < p}) = i - 1

\* the result holds the tracks of the collection, each once, in its order
ListingComplete ==
    /\ Len(all_tracks) = Cardinality(TrackPositions)
    /\ \A i \in 1..Len(all_tracks) :
          /\ all_tracks[i].id = liked[NthTrackPosition(i)].track[1]
          /\ all_tracks[i].liked_at = liked[NthTrackPosition(i)].added_at
    /\ \A i, j \in 1..Len(all_tracks) : i # j => all_tracks[i].id # all_tracks[j].id

\* the items the service holds from the offset on, up to one page
ItemsReceived == Cardinality({k \in 1..Len(liked) : offset < k /\ k <= offset + PageLimit})

\* a request of the loop: a page with items moves the offset by their
\* number and the loop goes on; the first page without items ends it
PageStep ==
    IF ItemsReceived > 0
    THEN pc' = pc /\ offset' = offset + ItemsReceived
    ELSE pc' # pc /\ offset' = offset /\ all_tracks' = all_tracks

\* C29: on a collection of N items that does not change, with every
\* request answered, get_all_liked_songs ends and returns every item that
\* has a track exactly once, in the order of the service; the offset moves
\* by the number of items received on each page, items without a track
\* included, and the loop stops at the first empty page.
C29_ExhaustiveListing ==
    /\ <>ListingDone
    /\ [](ListingDone => ListingComplete /\ offset = Len(liked))
    /\ [][PageStep]_vars

\* a collection of three items whose second has no track was listed: two
\* tracks returned, offset three
C29_ListedAroundNullTrack ==
    /\ ListingDone
    /\ Len(liked) = 3
    /\ liked[2].track = None
    /\ Len(all_tracks) = 2
    /\ offset = 3

(***************************************************************************)
(* Vocabulary of the kill properties.                                      *)
(***************************************************************************)
\* the process is killed while the loop over the new tracks is running
KilledInProcessing == InProcessing /\ pc' = "dead"

\* the file holds the outcome recorded for the track at position k
Persisted(k) ==
    /\ HasEntry(history, new_tracks[k].id)
    /\ LoadProcessingHistory(disk').processed_tracks[new_tracks[k].id]
           = history.processed_tracks[new_tracks[k].id]

\* C30: the ledger is written after each processed track: when the
\* process is killed during the loop, the file holds the outcome of every
\* track whose processing finished before the kill and lacks at most the
\* track in process.
C30_PersistedPerItem ==
    [][KilledInProcessing => \A k \in 1..(idx - 1) : Persisted(k)]_vars

(***************************************************************************)
(* Vocabulary of the listing under a changing collection.                  *)
(***************************************************************************)
\* no id occurs at two positions of the list
DistinctIds(tracks) ==
    \A i, j \in 1..Len(tracks) : i # j => tracks[i].id # tracks[j].id

\* C31: when the user likes tracks while get_all_liked_songs pages by
\* offset, the list it returns holds no id more than once, so a run
\* processes and records each new id at most once.
C31_NoIdListedTwice ==
    /\ DistinctIds(all_tracks)
    /\ DistinctIds(new_tracks)
    /\ InProcessing => \A k \in 1..(idx - 1) : new_tracks[k].id # new_tracks[idx].id

(***************************************************************************)
(* Vocabulary of the coherence of the playlist cache.                      *)
(***************************************************************************)
\* every entry of the cache is the set of ids the playlist holds
CacheMatchesRemote ==
    \A p \in Playlists :
        playlist_cache[p] # None => playlist_cache[p][1] = Range(playlist[p])

\* C32: whenever the playlist cache holds an entry for a playlist, the
\* entry is the set of track ids the playlist holds on the service, also
\* after a membership listing one of whose page requests failed.
C32_CacheCoherence == CacheMatchesRemote

\* C32 when no request has failed
C32_CacheCoherenceWithoutFaults == faults = 0 => CacheMatchesRemote

(***************************************************************************)
(* Vocabulary of the completeness of the genre cache.                      *)
(***************************************************************************)
\* the artist ids get_artist_genres_batch is asked for
AskedIds == Range(TrackArtists(new_tracks[idx].id))

\* C33: after get_artist_genres_batch returns, every id it was asked for
\* is in artist_genre_cache, also an id for which an answered batch
\* carried no artist object, so no id is requested twice in a run.
C33_AskedIdsCached ==
    [][TagsResolved => \A aid \in AskedIds : artist_genre_cache'[aid] # None]_vars

\* C33 for the ids the service holds an artist object for
C33_KnownIdsCached ==
    [][TagsResolved =>
          \A aid \in AskedIds : RemoteArtist(aid) # None => artist_genre_cache'[aid] # None]_vars

(***************************************************************************)
(* Vocabulary of the run counter.                                          *)
(***************************************************************************)
\* run() has returned after the test of the rules at line 463
RunReturnedPastConfig == RunReturned /\ rules # <<>>

\* the counter and the time stamp of the ledger in memory moved once
CountedOnce ==
    /\ history.total_runs = obs.ledgerAtCall.total_runs + 1
    /\ history.last_run = Some(Today)

\* the call went through initialize_baseline
InitializedBaseline == op.mode # "none" /\ ~BaselineInitialized(obs.ledgerAtCall)

\* C34: every run() that gets past the test of the rules increases
\* total_runs by exactly one and sets last_run, whether or not it
\* initialized a baseline and whether or not it found new tracks.
C34_RunCounted == RunReturnedPastConfig => CountedOnce

\* C34 for the runs that processed a track and initialized no baseline
C34_RunCountedWhenProcessing ==
    (RunReturnedPastConfig /\ stats.processed > 0 /\ ~InitializedBaseline) => CountedOnce

====
